---- MODULE Spec2Model ----
(***************************************************************************)
(* PaddleOCR-VL HTTP service (main.py) and its companion client (test.py). *)
(*                                                                         *)
(* Two specifications over one set of variables:                           *)
(*   Spec        the FastAPI server: concurrent /ocr and /ocr/batch        *)
(*               handlers on one asyncio event loop, the per-request       *)
(*               TemporaryDirectory, the pipeline invocation;              *)
(*   ClientSpec  one run of the client's process_files.                    *)
(*                                                                         *)
(* File names, suffixes and page names are sequences of one-character      *)
(* strings, so that suffix extraction, lower-casing, stem and rsplit are   *)
(* computed as pathlib / str compute them.                                 *)
(***************************************************************************)
EXTENDS Integers, Sequences, FiniteSets, TLC

VARIABLES pipeline, loop, req, dirs, fsys, sent,
          cpc, cdir, useBatch, cfiles, ci, calls, inflight, resps, saves, disk, exc

svars == <<pipeline, loop, req, dirs, fsys, sent>>
cvars == <<cpc, cdir, useBatch, cfiles, ci, calls, inflight, resps, saves, disk, exc>>
vars == <<pipeline, loop, req, dirs, fsys, sent,
          cpc, cdir, useBatch, cfiles, ci, calls, inflight, resps, saves, disk, exc>>

\* ---------------------------------------------------------------- bounds
NumReqs == 2
MaxFiles == 2
MaxPages == 2

Reqs == 1..NumReqs
NoOne == 0

\* ------------------------------------------------- optional values (None)
Null == <<>>
Some(x) == <<x>>

\* ------------------------------------------------------- string helpers
RECURSIVE LastIndexOf(_, _)
LastIndexOf(s, c) ==
    IF s = <<>> THEN 0
    ELSE IF s[Len(s)] = c THEN Len(s)
    ELSE LastIndexOf(SubSeq(s, 1, Len(s) - 1), c)

EndsWith(s, suf) ==
    /\ Len(suf) <= Len(s)
    /\ SubSeq(s, Len(s) - Len(suf) + 1, Len(s)) = suf

\* str.removesuffix
RemoveSuffix(s, suf) ==
    IF suf # <<>> /\ EndsWith(s, suf) THEN SubSeq(s, 1, Len(s) - Len(suf)) ELSE s

\* the ASCII letters, upper and lower case in the same order
UpperLetters ==
    <<"A", "B", "C", "D", "E", "F", "G", "H", "I", "J", "K", "L", "M",
      "N", "O", "P", "Q", "R", "S", "T", "U", "V", "W", "X", "Y", "Z">>
LowerLetters ==
    <<"a", "b", "c", "d", "e", "f", "g", "h", "i", "j", "k", "l", "m",
      "n", "o", "p", "q", "r", "s", "t", "u", "v", "w", "x", "y", "z">>

\* str.lower on one character: ASCII upper-case letters change, the rest stays
LowerChar(c) ==
    IF \E i \in 1..Len(UpperLetters) : UpperLetters[i] = c
    THEN LowerLetters[CHOOSE i \in 1..Len(UpperLetters) : UpperLetters[i] = c]
    ELSE c

\* str.upper on one character: ASCII lower-case letters change, the rest stays
UpperChar(c) ==
    IF \E i \in 1..Len(LowerLetters) : LowerLetters[i] = c
    THEN UpperLetters[CHOOSE i \in 1..Len(LowerLetters) : LowerLetters[i] = c]
    ELSE c

\* str.lower / str.upper
Lower(s) == [i \in 1..Len(s) |-> LowerChar(s[i])]
Upper(s) == [i \in 1..Len(s) |-> UpperChar(s[i])]

RECURSIVE PathParts(_, _, _)
\* pathlib: the components of Path(p) from position i on, cur being the
\* component read so far; empty components (repeated or trailing separators)
\* and "." components are dropped
PathParts(p, i, cur) ==
    LET done == IF cur = <<>> \/ cur = <<".">> THEN <<>> ELSE <<cur>>
    IN IF i > Len(p) THEN done
       ELSE IF p[i] = "/" THEN done \o PathParts(p, i + 1, <<>>)
       ELSE PathParts(p, i + 1, Append(cur, p[i]))

\* pathlib: Path(p).name, the final path component ('' when there is none)
PathName(p) ==
    LET parts == PathParts(p, 1, <<>>)
    IN IF parts = <<>> THEN <<>> ELSE parts[Len(parts)]

\* pathlib: Path(p).suffix, the final component's last dot-suffix ('' when the
\* only dot leads or ends the name)
Suffix(p) ==
    LET n == PathName(p)
        i == LastIndexOf(n, ".")
    IN IF 1 < i /\ i < Len(n) THEN SubSeq(n, i, Len(n)) ELSE <<>>

\* pathlib: Path(p).stem
Stem(p) ==
    LET n == PathName(p)
        i == LastIndexOf(n, ".")
    IN IF 1 < i /\ i < Len(n) THEN SubSeq(n, 1, i - 1) ELSE n

\* str(i) for a page index
Digit(i) == <<"0", "1", "2", "3", "4", "5", "6", "7", "8", "9">>[i + 1]

\* --------------------------------------------------------- server: inputs
ALLOWED_EXTENSIONS ==
    { <<".", "p", "d", "f">>, <<".", "p", "n", "g">>, <<".", "j", "p", "g">>,
      <<".", "j", "p", "e", "g">>, <<".", "b", "m", "p">>,
      <<".", "t", "i", "f", "f">>, <<".", "w", "e", "b", "p">> }

\* Upload file names a request may carry: a PDF, an upper-case image suffix, an
\* image with the same base name given with a directory and a trailing
\* separator, a rejected suffix, no suffix.
UploadNames ==
    { <<"a", ".", "p", "d", "f">>,
      <<"b", ".", "P", "N", "G">>,
      <<"x", "/", "b", ".", "j", "p", "g", "/">>,
      <<"c", ".", "t", "x", "t">>,
      <<"c">> }

RECURSIVE SeqsUpTo(_, _)
SeqsUpTo(S, n) ==
    IF n = 0 THEN { <<>> }
    ELSE LET shorter == SeqsUpTo(S, n - 1)
         IN shorter \cup { Append(s, x) : s \in shorter, x \in S }

UploadLists == SeqsUpTo(UploadNames, MaxFiles)

\* main.py:118-119, 171-172: the extension test of one upload
FileExt(name) == Lower(Suffix(name))
ExtAllowed(name) == FileExt(name) \in ALLOWED_EXTENSIONS

\* main.py:170-176 with a loop that stops after the first upload
ValidateFirstOnly(files) == files = <<>> \/ ExtAllowed(files[1])

\* main.py:170-176: the batch endpoint's validation loop passes
ValidateAll(files) == \A i \in 1..Len(files) : ExtAllowed(files[i])

\* ---------------------------------------------------- server: file system
\* dirs: the directories that exist, <<d>>, <<d, "input">>, <<d, "output">>;
\* fsys: the files that exist, <<d, sub, name>> |-> content.
WriteFile(fs, path, content) ==
    [p \in DOMAIN fs \cup {path} |-> IF p = path THEN content ELSE fs[p]]

\* tempfile.mkdtemp: a directory name that does not exist yet
Mkdtemp == CHOOSE n \in 1..(Cardinality(dirs) + 1) :
               /\ <<n>> \notin dirs
               /\ \A m \in 1..(n - 1) : <<m>> \in dirs

\* main.py:125-130, 178-183: TemporaryDirectory() entered, input/ and output/ made
StagingDirs(d) == { <<d>>, <<d, "input">>, <<d, "output">> }

\* shutil.rmtree of the staging root
RemoveTree(d) ==
    [dirs |-> { p \in dirs : p[1] # d },
     fsys |-> [p \in { q \in DOMAIN fsys : q[1] # d } |-> fsys[p]]]

\* a with-block that cleans up only when its body returns normally
StagingExitLeakOnRaise(d, raised) ==
    IF raised THEN [dirs |-> dirs, fsys |-> fsys] ELSE RemoveTree(d)

\* main.py:125, 178: leaving `with TemporaryDirectory()`, by return or by an
\* exception (raised), removes the whole tree
StagingExit(d, raised) == RemoveTree(d)

\* ------------------------------------------------- server: request state
Idle == [pc |-> "idle", kind |-> "none", files |-> <<>>, tmp |-> 0, i |-> 0,
         paths |-> <<>>, filenames |-> <<>>, written |-> 0,
         pages |-> <<>>, j |-> 0, produced |-> <<>>]

NoResponse == [kind |-> "none", files |-> <<>>, status |-> 0, body |-> "none",
               detail |-> "", filenames |-> <<>>, page_count |-> 0,
               pages |-> <<>>, staged |-> FALSE, written |-> 0,
               invoked |-> FALSE, produced |-> <<>>, fault |-> "", tmp |-> 0]

\* an HTTPException (or the framework's answer to an unhandled exception)
ErrorResponse(r, kind, files, status, detail) ==
    [kind |-> kind, files |-> files, status |-> status, body |-> "detail",
     detail |-> detail, filenames |-> <<>>, page_count |-> 0, pages |-> <<>>,
     staged |-> req[r].pc # "idle", written |-> req[r].written,
     invoked |-> req[r].pc \in {"predict", "save"},
     produced |-> req[r].produced, fault |-> "", tmp |-> req[r].tmp]

\* the coroutine that may run: the event loop is free, or r already holds it
CanRun(r) == loop = NoOne \/ loop = r

\* the handler awaits its pipeline call on a worker thread: the loop is released
CallInThreadpool(r) == NoOne

\* main.py:142, 198: _process_with_pipeline is an ordinary call inside an async
\* def, so the handler keeps the event loop until it returns
CallSync(r) == r

PipelinePcs == {"predict", "save"}

\* ------------------------------------------------------ server: pipeline
IsPdf(name) == Lower(Suffix(name)) = <<".", "p", "d", "f">>

\* the pages the external pipeline yields for one input path: a PDF gives k
\* pages with page_index 0..k-1, an image one page without a page index
PagesOfFile(pos, name, k) ==
    IF IsPdf(name)
    THEN [n \in 1..k |-> [pos |-> pos, input |-> name, idx |-> n - 1]]
    ELSE << [pos |-> pos, input |-> name, idx |-> -1] >>

RECURSIVE PredictPages(_, _, _)
\* main.py:68-75: predict over all paths, in file order then page order
PredictPages(paths, ks, from) ==
    IF from > Len(paths) THEN <<>>
    ELSE PagesOfFile(from, paths[from], ks[from]) \o PredictPages(paths, ks, from + 1)

\* the page counts the pipeline may report: 1..MaxPages per PDF, 1 per image
PageCounts(paths) ==
    { ks \in [1..Len(paths) -> 1..MaxPages] :
        \A n \in 1..Len(paths) : ~IsPdf(paths[n]) => ks[n] = 1 }

\* the artifact names page.save_to_json / save_to_markdown write (main.py:79-80,
\* 88-91): <stem>[_<page_index>]_res.json and <stem>[_<page_index>].md
PageBase(pg) ==
    Stem(pg.input) \o (IF pg.idx >= 0 THEN <<"_", Digit(pg.idx)>> ELSE <<>>)
JsonArtifact(pg) == PageBase(pg) \o <<"_", "r", "e", "s", ".", "j", "s", "o", "n">>
MdArtifact(pg) == PageBase(pg) \o <<".", "m", "d">>
PageContent(pg) == <<pg.input, pg.idx>>

\* main.py:77-80: one page saved to the output directory; wj / wm say whether
\* the pipeline wrote the structured-data / the markdown document
SaveArtifacts(fs, d, pg, wj, wm) ==
    LET fs1 == IF wj THEN WriteFile(fs, <<d, "output", JsonArtifact(pg)>>, PageContent(pg))
               ELSE fs
    IN IF wm THEN WriteFile(fs1, <<d, "output", MdArtifact(pg)>>, PageContent(pg))
       ELSE fs1

\* main.py:83: tmp_output_dir.glob("*_res.json")
JsonFiles(fs, d) ==
    { p[3] : p \in { q \in DOMAIN fs : /\ q[1] = d
                                       /\ q[2] = "output"
                                       /\ EndsWith(q[3], <<"_", "r", "e", "s", ".", "j", "s", "o", "n">>) } }

\* main.py:86-103: the page_name -> PageData mapping read back from disk
ReadBack(fs, d) ==
    [pn \in { Stem(f) : f \in JsonFiles(fs, d) } |->
        LET json_file == <<d, "output", pn \o <<".", "j", "s", "o", "n">>>>
            base_name == RemoveSuffix(pn, <<"_", "r", "e", "s">>)
            md_file   == <<d, "output", base_name \o <<".", "m", "d">>>>
        IN [json     |-> IF json_file \in DOMAIN fs THEN Some(fs[json_file]) ELSE Null,
            markdown |-> IF md_file \in DOMAIN fs THEN Some(fs[md_file]) ELSE Null]]

\* a handler that answers a fault with what was read back so far
FaultResponsePartial(r, msg) ==
    [kind |-> req[r].kind, files |-> req[r].files, status |-> 200, body |-> "result",
     detail |-> "", filenames |-> req[r].filenames,
     page_count |-> Cardinality(DOMAIN ReadBack(fsys, req[r].tmp)),
     pages |-> ReadBack(fsys, req[r].tmp),
     staged |-> TRUE, written |-> req[r].written, invoked |-> TRUE,
     produced |-> req[r].produced, fault |-> "", tmp |-> req[r].tmp]

\* main.py:151-153, 207-209: except Exception -> HTTPException(500, str(e))
FaultResponse(r, msg) == ErrorResponse(r, req[r].kind, req[r].files, 500, msg)

\* main.py:145-149, 201-205: the 200 response
OkResponse(r, results) ==
    [kind |-> req[r].kind, files |-> req[r].files, status |-> 200, body |-> "result",
     detail |-> "", filenames |-> req[r].filenames,
     page_count |-> Cardinality(DOMAIN results), pages |-> results,
     staged |-> TRUE, written |-> req[r].written, invoked |-> TRUE,
     produced |-> req[r].produced, fault |-> "", tmp |-> req[r].tmp]

\* ------------------------------------------------------- server: actions
ServerInit ==
    /\ pipeline = FALSE
    /\ loop = NoOne
    /\ req = [r \in Reqs |-> Idle]
    /\ dirs = {}
    /\ fsys = <<>>
    /\ sent = NoResponse

\* no exception has left process_files
NoException == "none"

ClientOff ==
    /\ cpc = "off"
    /\ cdir = {}
    /\ useBatch = FALSE
    /\ cfiles = <<>>
    /\ ci = 0
    /\ calls = <<>>
    /\ inflight = 0
    /\ resps = <<>>
    /\ saves = {}
    /\ disk = <<>>
    /\ exc = NoException

\* main.py:23-34: lifespan startup constructs the pipeline
lifespan ==
    /\ ~pipeline
    /\ pipeline' = TRUE
    /\ sent' = NoResponse
    /\ UNCHANGED <<loop, req, dirs, fsys>>
    /\ UNCHANGED cvars

\* main.py:113-137: POST /ocr up to its first await (file.read())
ProcessFileStart(r, f) ==
    /\ req[r].pc = "idle"
    /\ CanRun(r)
    /\ IF ~pipeline
       THEN /\ sent' = ErrorResponse(r, "single", <<f>>, 503, "OCR pipeline not initialized")
            /\ UNCHANGED <<req, dirs>>
       ELSE IF ~ExtAllowed(f)
       THEN /\ sent' = ErrorResponse(r, "single", <<f>>, 400, "Unsupported file type")
            /\ UNCHANGED <<req, dirs>>
       ELSE /\ dirs' = dirs \cup StagingDirs(Mkdtemp)
            /\ req' = [req EXCEPT ![r] = [Idle EXCEPT !.pc = "read", !.kind = "single",
                                                      !.files = <<f>>, !.tmp = Mkdtemp,
                                                      !.i = 1]]
            /\ sent' = NoResponse
    /\ UNCHANGED <<pipeline, loop, fsys>>
    /\ UNCHANGED cvars

\* main.py:163-191: POST /ocr/batch up to its first await
ProcessFilesStart(r, files) ==
    /\ req[r].pc = "idle"
    /\ CanRun(r)
    /\ IF ~pipeline
       THEN /\ sent' = ErrorResponse(r, "batch", files, 503, "OCR pipeline not initialized")
            /\ UNCHANGED <<req, dirs>>
       ELSE IF files = <<>>
       THEN /\ sent' = ErrorResponse(r, "batch", files, 400, "No files provided")
            /\ UNCHANGED <<req, dirs>>
       ELSE IF ~ValidateAll(files)
       THEN /\ sent' = ErrorResponse(r, "batch", files, 400, "Unsupported file type")
            /\ UNCHANGED <<req, dirs>>
       ELSE /\ dirs' = dirs \cup StagingDirs(Mkdtemp)
            /\ req' = [req EXCEPT ![r] = [Idle EXCEPT !.pc = "read", !.kind = "batch",
                                                      !.files = files, !.tmp = Mkdtemp,
                                                      !.i = 1]]
            /\ sent' = NoResponse
    /\ UNCHANGED <<pipeline, loop, fsys>>
    /\ UNCHANGED cvars

\* main.py:133-142, 188-198: an awaited file.read() returns; the upload is written
\* under its final path component; after the last upload the handler calls
\* _process_with_pipeline without awaiting anything
ReadUpload(r) ==
    /\ req[r].pc = "read"
    /\ CanRun(r)
    /\ LET q == req[r]
           safe_name == PathName(q.files[q.i])
           more == q.i < Len(q.files)
       IN /\ fsys' = WriteFile(fsys, <<q.tmp, "input", safe_name>>, <<q.files[q.i], q.i>>)
          /\ req' = [req EXCEPT ![r] = [q EXCEPT !.paths = Append(q.paths, safe_name),
                                                 !.filenames = Append(q.filenames, q.files[q.i]),
                                                 !.written = q.written + 1,
                                                 !.i = q.i + 1,
                                                 !.pc = IF more THEN "read" ELSE "predict"]]
          /\ loop' = IF more THEN loop ELSE CallSync(r)
    /\ sent' = NoResponse
    /\ UNCHANGED <<pipeline, dirs>>
    /\ UNCHANGED cvars

\* main.py:137-138, 191-192: file.read() or write_bytes raises; the exception
\* leaves the with-block and the framework answers 500
ReadRaises(r) ==
    /\ req[r].pc = "read"
    /\ CanRun(r)
    /\ sent' = ErrorResponse(r, req[r].kind, req[r].files, 500, "Internal Server Error")
    /\ dirs' = StagingExit(req[r].tmp, TRUE).dirs
    /\ fsys' = StagingExit(req[r].tmp, TRUE).fsys
    /\ req' = [req EXCEPT ![r] = Idle]
    /\ UNCHANGED <<pipeline, loop>>
    /\ UNCHANGED cvars

\* main.py:64-75: pipeline.predict over the staged paths, restructure_pages
Predict(r) ==
    /\ req[r].pc = "predict"
    /\ CanRun(r)
    /\ \E ks \in PageCounts(req[r].paths) :
          req' = [req EXCEPT ![r].pages = PredictPages(req[r].paths, ks, 1),
                             ![r].j = 1,
                             ![r].pc = "save"]
    /\ sent' = NoResponse
    /\ UNCHANGED <<pipeline, loop, dirs, fsys>>
    /\ UNCHANGED cvars

\* main.py:77-80: the next page's save_to_json and save_to_markdown; the pipeline
\* writes both documents, or leaves one of the two out
SavePage(r) ==
    /\ req[r].pc = "save"
    /\ CanRun(r)
    /\ req[r].j <= Len(req[r].pages)
    /\ \E wj \in BOOLEAN, wm \in BOOLEAN :
          LET pg == req[r].pages[req[r].j]
          IN /\ wj \/ wm
             /\ fsys' = SaveArtifacts(fsys, req[r].tmp, pg, wj, wm)
             /\ req' = [req EXCEPT ![r].j = req[r].j + 1,
                                   ![r].produced = Append(req[r].produced,
                                       [pos |-> pg.pos, input |-> pg.input, idx |-> pg.idx,
                                        wj |-> wj, wm |-> wm])]
    /\ sent' = NoResponse
    /\ UNCHANGED <<pipeline, loop, dirs>>
    /\ UNCHANGED cvars

\* main.py:83-103, 143-149, 199-205: read back, answer 200, leave the with-block
Respond(r) ==
    /\ req[r].pc = "save"
    /\ CanRun(r)
    /\ req[r].j > Len(req[r].pages)
    /\ sent' = OkResponse(r, ReadBack(fsys, req[r].tmp))
    /\ dirs' = StagingExit(req[r].tmp, FALSE).dirs
    /\ fsys' = StagingExit(req[r].tmp, FALSE).fsys
    /\ req' = [req EXCEPT ![r] = Idle]
    /\ loop' = NoOne
    /\ UNCHANGED pipeline
    /\ UNCHANGED cvars

\* str(e) of the exception, by the stage of _process_with_pipeline that raised
FaultMessage(r) ==
    IF req[r].pc = "predict" THEN "predict failed"
    ELSE IF req[r].j <= Len(req[r].pages) THEN "save failed"
    ELSE "read back failed"

\* main.py:151-153, 207-209: anything _process_with_pipeline raises
PipelineRaises(r) ==
    /\ req[r].pc \in PipelinePcs
    /\ CanRun(r)
    /\ sent' = [FaultResponse(r, FaultMessage(r)) EXCEPT !.fault = FaultMessage(r)]
    /\ dirs' = StagingExit(req[r].tmp, TRUE).dirs
    /\ fsys' = StagingExit(req[r].tmp, TRUE).fsys
    /\ req' = [req EXCEPT ![r] = Idle]
    /\ loop' = NoOne
    /\ UNCHANGED pipeline
    /\ UNCHANGED cvars

Init == ServerInit /\ ClientOff

Next ==
    \/ lifespan
    \/ \E r \in Reqs, f \in UploadNames : ProcessFileStart(r, f)
    \/ \E r \in Reqs, files \in UploadLists : ProcessFilesStart(r, files)
    \/ \E r \in Reqs : ReadUpload(r)
    \/ \E r \in Reqs : ReadRaises(r)
    \/ \E r \in Reqs : Predict(r)
    \/ \E r \in Reqs : SavePage(r)
    \/ \E r \in Reqs : Respond(r)
    \/ \E r \in Reqs : PipelineRaises(r)

Spec == Init /\ [][Next]_vars

\* ======================================================== client (test.py)
\* ASCII order of the characters that occur in file names
Alphabet ==
    <<".", "/", "0", "1", "2", "3", "4", "5", "6", "7", "8", "9">>
    \o UpperLetters \o <<"_">> \o LowerLetters
CharCode(c) == CHOOSE i \in 1..Len(Alphabet) : Alphabet[i] = c

RECURSIVE StrLess(_, _)
\* str.__lt__
StrLess(s, t) ==
    IF t = <<>> THEN FALSE
    ELSE IF s = <<>> THEN TRUE
    ELSE IF s[1] = t[1] THEN StrLess(Tail(s), Tail(t))
    ELSE CharCode(s[1]) < CharCode(t[1])

RECURSIVE SortedSeq(_)
\* sorted(files)
SortedSeq(S) ==
    IF S = {} THEN <<>>
    ELSE LET m == CHOOSE x \in S : \A y \in S \ {x} : StrLess(x, y)
         IN <<m>> \o SortedSeq(S \ {m})

\* test.py:21
SUPPORTED_EXTENSIONS ==
    { <<"p", "d", "f">>, <<"p", "n", "g">>, <<"j", "p", "g">>, <<"j", "p", "e", "g">>,
      <<"b", "m", "p">>, <<"t", "i", "f", "f">>, <<"w", "e", "b", "p">> }

\* the names an input directory may hold: lower-case and upper-case suffixes
\* (found by the two globs), a mixed-case suffix and an unsupported one (not found)
ClientDirNames ==
    { <<"a", ".", "p", "d", "f">>,
      <<"b", ".", "P", "N", "G">>,
      <<"b", ".", "J", "P", "E", "G">>,
      <<"b", ".", "J", "p", "g">>,
      <<"c", ".", "t", "x", "t">> }

\* test.py:86-89: glob("*.<ext>") and glob("*.<EXT>") over the supported extensions
Discover(dir) ==
    { f \in dir : \E ext \in SUPPORTED_EXTENSIONS :
                     \/ EndsWith(f, <<".">> \o ext)
                     \/ EndsWith(f, <<".">> \o Upper(ext)) }

\* test.py:99: use_batch and len(files) > 1
UseBatchMode == useBatch /\ Len(cfiles) > 1

\* test.py:104-105: the for loop moves to the next file whatever the call returned
Advance(i, status) == i + 1

\* Python truthiness of an optional str / dict: None, "" and {} are falsy
Truthy(opt) == opt # Null /\ opt[1] # <<>>

DirMark == <<"dir">>

\* a page value that is no mapping (JSON null): page_data.get raises, test.py:45
NullPage == Null

\* test.py:49, 54: <page_name>.md and <page_name>.json under the base directory
MdPath(base_name, pn) == <<base_name, pn \o <<".", "m", "d">>>>
JsonPath(base_name, pn) == <<base_name, pn \o <<".", "j", "s", "o", "n">>>>

\* test.py:56: json.dumps of a non-empty mapping, the text between braces
Dumps(json_data) == <<"{">> \o json_data \o <<"}">>

\* what a write that raised after opening its file has put there: mode 'w'
\* created or emptied the file, and less than the whole text reached it
ProperPrefixes(text) == { SubSeq(text, 1, n) : n \in 0..(Len(text) - 1) }

\* test.py:45-59: the files a save_results call that returns has written
SaveWrites(pages, base_name) ==
    { MdPath(base_name, pn) :
          pn \in { q \in DOMAIN pages : Truthy(pages[q].markdown) } }
    \cup
    { JsonPath(base_name, pn) :
          pn \in { q \in DOMAIN pages : Truthy(pages[q].json) } }

\* test.py:50, 55-58: the text written to a file of SaveWrites
SaveContent(pages, path) ==
    LET md == EndsWith(path[2], <<".", "m", "d">>)
        pn == IF md THEN RemoveSuffix(path[2], <<".", "m", "d">>)
              ELSE RemoveSuffix(path[2], <<".", "j", "s", "o", "n">>)
    IN IF md THEN pages[pn].markdown[1] ELSE Dumps(pages[pn].json[1])

\* test.py:45-59: the files, with their text, written for the pages of full
FullFiles(pages, base_name, full) ==
    [p \in SaveWrites([q \in full |-> pages[q]], base_name) |-> SaveContent(pages, p)]

\* test.py:45-59: what the iteration for page pn leaves when it raises: nothing
\* for a page that is no mapping; when the .md write raises, no .md (open
\* raised) or a truncated one; when the .json write raises, the .md in full
\* (if the page has one) and no .json or a truncated one
FailingFiles(pages, base_name, pn) ==
    IF pages[pn] = NullPage THEN { <<>> }
    ELSE LET pd == pages[pn]
             mdp == MdPath(base_name, pn)
             jsp == JsonPath(base_name, pn)
             mdfull == IF Truthy(pd.markdown) THEN mdp :> pd.markdown[1] ELSE <<>>
             mdfail == IF Truthy(pd.markdown)
                       THEN { <<>> } \cup { mdp :> t : t \in ProperPrefixes(pd.markdown[1]) }
                       ELSE {}
             jsfail == IF Truthy(pd.json)
                       THEN { mdfull } \cup
                            { mdfull @@ (jsp :> t) : t \in ProperPrefixes(Dumps(pd.json[1])) }
                       ELSE {}
         IN mdfail \cup jsfail

\* test.py:41-59: the disk after mkdir and the writes of files
SaveTo(dk, base_name, files) ==
    [p \in DOMAIN dk \cup {<<base_name>>} \cup DOMAIN files |->
        IF p \in DOMAIN files THEN files[p]
        ELSE IF p = <<base_name>> THEN DirMark
        ELSE dk[p]]

\* test.py:44-45: every page value is a mapping, so that no page_data.get raises
AllPages(pages) == \A q \in DOMAIN pages : pages[q] # NullPage

\* test.py:34-59: save_results returns, the disk afterwards
save_results(dk, pages, base_name) ==
    SaveTo(dk, base_name, FullFiles(pages, base_name, DOMAIN pages))

\* test.py:34-59: the disk a save_results call that raises leaves behind: mkdir
\* raised (nothing done), or the loop raised at some page: the pages before it
\* (any, the mapping's order; all of them mappings) written in full and the
\* failing page as FailingFiles says
SaveRaises(dk, pages, base_name) ==
    {dk} \cup
    UNION { UNION { { SaveTo(dk, base_name, FullFiles(pages, base_name, before) @@ f) :
                        f \in FailingFiles(pages, base_name, pn) } :
                    before \in SUBSET { q \in DOMAIN pages \ {pn} : pages[q] # NullPage } } :
            pn \in DOMAIN pages }

\* test.py:44: pages is null, so mkdir (if it did not raise) is followed by
\* pages.items() raising
SaveNoPagesRaises(dk, base_name) == {dk, SaveTo(dk, base_name, <<>>)}

\* test.py:170: page_name.rsplit("_", 1)[0] if "_" in page_name else page_name
BaseOfPage(pn) ==
    IF LastIndexOf(pn, "_") > 0 THEN SubSeq(pn, 1, LastIndexOf(pn, "_") - 1) ELSE pn

\* test.py:167-173: grouped[base_name][page_name] = page_data
Grouped(pages) ==
    [b \in { BaseOfPage(pn) : pn \in DOMAIN pages } |->
        [pn \in { q \in DOMAIN pages : BaseOfPage(q) = b } |-> pages[pn]]]

RECURSIVE SaveGroups(_, _, _)
\* test.py:176-177: save_results for every group of todo
SaveGroups(dk, grouped, todo) ==
    IF todo = {} THEN dk
    ELSE LET b == CHOOSE x \in todo : TRUE
         IN SaveGroups(save_results(dk, grouped[b], b), grouped, todo \ {b})

\* test.py:176-177: the save loop ends with an exception: the groups of full
\* (any, the mapping's order; all their pages mappings) were saved and the next
\* save_results raised
SaveGroupsRaises(dk, grouped) ==
    UNION { { [saved |-> full, disk |-> after] :
                after \in UNION { SaveRaises(SaveGroups(dk, grouped, full), grouped[b], b) :
                                    b \in DOMAIN grouped \ full } } :
            full \in SUBSET { g \in DOMAIN grouped : AllPages(grouped[g]) } }

\* ------------------------------------------- client: what a server answers
Doc == <<"d">>
Text == <<"t">>
FailStatuses == {400, 422, 500, 503}

\* models.py:44-48: PageData, both fields optional; markdown may be the empty
\* string; a body from elsewhere may hold a page that is no mapping
PageDataValues ==
    { [json |-> j, markdown |-> m] :
        j \in {Null, Some(Doc)}, m \in {Null, Some(<<>>), Some(Text)} }
    \cup {NullPage}

\* the page names main.py builds for the uploads (main.py:83-88)
ServerPageNames(names, ks) ==
    LET pgs == PredictPages([n \in 1..Len(names) |-> PathName(names[n])], ks, 1)
    IN { Stem(JsonArtifact(pgs[n])) : n \in 1..Len(pgs) }

\* the pages mappings a 200 answer may carry: an entry for any part of the page
\* names (a page without a *_res.json has none, main.py:83-87), none at all included
ServerPageMaps(names) ==
    UNION { [keys -> PageDataValues] :
              keys \in UNION { SUBSET ServerPageNames(names, ks) : ks \in PageCounts(names) } }

\* what client.post may return: a failure status; a 200 whose body is a result
\* with a pages mapping; a 200 whose pages is null ("no_pages"); a 200 whose
\* body is no result at all, so that response.json(), result["page_count"] or
\* result["pages"] raises (test.py:127-132, 163-167)
Responses(names) ==
    { [status |-> st, body |-> "error", pages |-> <<>>] : st \in FailStatuses }
    \cup { [status |-> 200, body |-> "result", pages |-> pm] : pm \in ServerPageMaps(names) }
    \cup { [status |-> 200, body |-> b, pages |-> <<>>] : b \in {"no_pages", "other"} }

\* ------------------------------------------------------- client: actions
ServerOff ==
    /\ pipeline = FALSE
    /\ loop = NoOne
    /\ req = [r \in Reqs |-> Idle]
    /\ dirs = {}
    /\ fsys = <<>>
    /\ sent = NoResponse

ClientInit ==
    /\ cpc = "start"
    /\ cdir \in SUBSET ClientDirNames
    /\ useBatch \in BOOLEAN
    /\ cfiles = <<>>
    /\ ci = 0
    /\ calls = <<>>
    /\ inflight = 0
    /\ resps = <<>>
    /\ saves = {}
    /\ disk = <<>>
    /\ exc = NoException

\* test.py:80-96: create the output directory, list the input directory, return
\* when nothing is supported; output_path.mkdir raising ends the run
DiscoverFiles ==
    /\ cpc = "start"
    /\ \E made \in BOOLEAN :
          IF made
          THEN /\ cfiles' = SortedSeq(Discover(cdir))
               /\ cpc' = IF Discover(cdir) = {} THEN "done" ELSE "ready"
               /\ exc' = exc
          ELSE /\ cfiles' = cfiles
               /\ cpc' = "raised"
               /\ exc' = "mkdir"
    /\ UNCHANGED <<cdir, useBatch, ci, calls, inflight, resps, saves, disk>>
    /\ UNCHANGED svars

\* test.py:99-101, 149-160: every file is read, then one POST to
\* <api_url>/batch with all of them; a read_bytes that raises ends the run
\* before the call is issued
SendBatch ==
    /\ cpc = "ready"
    /\ UseBatchMode
    /\ \E readable \in BOOLEAN :
          IF readable
          THEN /\ calls' = Append(calls, [url |-> "batch", files |-> cfiles])
               /\ inflight' = inflight + 1
               /\ cpc' = "await_batch"
               /\ exc' = exc
          ELSE /\ cpc' = "raised"
               /\ exc' = "read_bytes"
               /\ UNCHANGED <<calls, inflight>>
    /\ UNCHANGED <<cdir, useBatch, cfiles, ci, resps, saves, disk>>
    /\ UNCHANGED svars

\* test.py:104-105, 115-124: the loop's next file is opened and POSTed to
\* <api_url>; an open that raises ends the run before the call is issued
SendSingle ==
    /\ cpc = "ready"
    /\ ~UseBatchMode
    /\ ci < Len(cfiles)
    /\ \E readable \in BOOLEAN :
          IF readable
          THEN /\ calls' = Append(calls, [url |-> "single", files |-> <<cfiles[ci + 1]>>])
               /\ inflight' = inflight + 1
               /\ cpc' = "await_single"
               /\ exc' = exc
          ELSE /\ cpc' = "raised"
               /\ exc' = "open"
               /\ UNCHANGED <<calls, inflight>>
    /\ UNCHANGED <<cdir, useBatch, cfiles, ci, resps, saves, disk>>
    /\ UNCHANGED svars

\* test.py:126-139: the single call's response is handled: a 200 is decoded and
\* saved, any other status is logged; an exception from response.json(), the
\* result's keys ("result") or from inside save_results is not caught and ends
\* the run
SingleResponse ==
    /\ cpc = "await_single"
    /\ \E resp \in Responses(<<cfiles[ci + 1]>>) :
          LET base_name == Stem(cfiles[ci + 1])
          IN /\ resps' = Append(resps, resp)
             /\ \/ /\ resp.status = 200
                   /\ resp.body = "result"
                   /\ AllPages(resp.pages)
                   /\ disk' = save_results(disk, resp.pages, base_name)
                   /\ saves' = saves \cup
                         { [call |-> Len(calls), base |-> base_name, pages |-> resp.pages,
                            written |-> SaveWrites(resp.pages, base_name)] }
                   /\ ci' = Advance(ci, resp.status)
                   /\ cpc' = IF Advance(ci, resp.status) >= Len(cfiles) THEN "done" ELSE "ready"
                   /\ exc' = exc
                \/ /\ resp.status = 200
                   /\ resp.body = "result"
                   /\ disk' \in SaveRaises(disk, resp.pages, base_name)
                   /\ cpc' = "raised"
                   /\ exc' = "save_results"
                   /\ UNCHANGED <<saves, ci>>
                \/ /\ resp.status = 200
                   /\ resp.body = "no_pages"
                   /\ disk' \in SaveNoPagesRaises(disk, base_name)
                   /\ cpc' = "raised"
                   /\ exc' = "save_results"
                   /\ UNCHANGED <<saves, ci>>
                \/ /\ resp.status = 200
                   /\ resp.body = "other"
                   /\ cpc' = "raised"
                   /\ exc' = "result"
                   /\ UNCHANGED <<disk, saves, ci>>
                \/ /\ resp.status # 200
                   /\ ci' = Advance(ci, resp.status)
                   /\ cpc' = IF Advance(ci, resp.status) >= Len(cfiles) THEN "done" ELSE "ready"
                   /\ exc' = exc
                   /\ UNCHANGED <<disk, saves>>
    /\ inflight' = inflight - 1
    /\ UNCHANGED <<cdir, useBatch, cfiles, calls>>
    /\ UNCHANGED svars

\* test.py:162-179: the batch call's response is handled: a 200 is decoded,
\* regrouped and every group saved, any other status is logged; an exception
\* from response.json(), the result's keys, pages.items() ("result") or from
\* inside a save_results is not caught
BatchResponse ==
    /\ cpc = "await_batch"
    /\ \E resp \in Responses(cfiles) :
          LET grouped == Grouped(resp.pages)
          IN /\ resps' = Append(resps, resp)
             /\ \/ /\ resp.status = 200
                   /\ resp.body = "result"
                   /\ AllPages(resp.pages)
                   /\ disk' = SaveGroups(disk, grouped, DOMAIN grouped)
                   /\ saves' = saves \cup
                         { [call |-> Len(calls), base |-> b, pages |-> grouped[b],
                            written |-> SaveWrites(grouped[b], b)] : b \in DOMAIN grouped }
                   /\ cpc' = "done"
                   /\ exc' = exc
                \/ /\ resp.status = 200
                   /\ resp.body = "result"
                   /\ \E o \in SaveGroupsRaises(disk, grouped) :
                         /\ disk' = o.disk
                         /\ saves' = saves \cup
                               { [call |-> Len(calls), base |-> b, pages |-> grouped[b],
                                  written |-> SaveWrites(grouped[b], b)] : b \in o.saved }
                   /\ cpc' = "raised"
                   /\ exc' = "save_results"
                \/ /\ resp.status = 200
                   /\ resp.body \in {"no_pages", "other"}
                   /\ cpc' = "raised"
                   /\ exc' = "result"
                   /\ UNCHANGED <<disk, saves>>
                \/ /\ resp.status # 200
                   /\ cpc' = "done"
                   /\ exc' = exc
                   /\ UNCHANGED <<disk, saves>>
    /\ inflight' = inflight - 1
    /\ UNCHANGED <<cdir, useBatch, cfiles, ci, calls>>
    /\ UNCHANGED svars

\* test.py:121-124, 160: client.post raises (timeout, connection error) instead
\* of returning; nothing catches it and process_files ends with the exception
CallRaises ==
    /\ cpc \in {"await_single", "await_batch"}
    /\ cpc' = "raised"
    /\ exc' = "post"
    /\ inflight' = inflight - 1
    /\ UNCHANGED <<cdir, useBatch, cfiles, ci, calls, resps, saves, disk>>
    /\ UNCHANGED svars

ClientNext ==
    \/ DiscoverFiles
    \/ SendBatch
    \/ SendSingle
    \/ SingleResponse
    \/ BatchResponse
    \/ CallRaises

CInit == ServerOff /\ ClientInit

ClientSpec == CInit /\ [][ClientNext]_vars

\* ================================================================ claims
\* every page the pipeline saved in the answered request got its structured-data
\* document, and no two pages share an artifact name
AllJsonSaved(resp) == \A n \in 1..Len(resp.produced) : resp.produced[n].wj
NoArtifactClash(resp) ==
    \A m, n \in 1..Len(resp.produced) :
        m # n => PageBase(resp.produced[m]) # PageBase(resp.produced[n])

\* C1: for a batch whose uploads have pairwise distinct base names without "_",
\* the client's grouping of the server's page names puts every produced page in
\* the group keyed by its source file's base name, and no group holds a page
\* of another source file.
C1_RegroupInvertsNaming ==
    ( /\ sent.kind = "batch"
      /\ sent.status = 200
      /\ Len(sent.files) > 1
      /\ \A m, n \in 1..Len(sent.files) : m # n => Stem(sent.files[m]) # Stem(sent.files[n])
      /\ \A m \in 1..Len(sent.files) : LastIndexOf(Stem(sent.files[m]), "_") = 0
      /\ AllJsonSaved(sent) )
    => LET g == Grouped(sent.pages)
       IN \A n \in 1..Len(sent.produced) :
             LET pg == sent.produced[n]
                 base == Stem(sent.files[pg.pos])
             IN /\ base \in DOMAIN g
                /\ \E pn \in DOMAIN g[base] : g[base][pn].json = Some(PageContent(pg))
                /\ \A b \in DOMAIN g \ {base} :
                      \A pn \in DOMAIN g[b] : g[b][pn].json # Some(PageContent(pg))

\* C2: a request with at least one upload proceeds to staging exactly when
\* every upload's suffix, lower-cased, is in the allow-set; a request answered
\* without staging (pipeline initialized) gets 400, has an upload outside the
\* allow-set (or no upload), and its step creates no directory, writes no file
\* and enters no pipeline stage.
C2_ExtensionFailFast ==
    [][ /\ \A r \in Reqs :
              (req[r].pc = "idle" /\ req'[r].pc # "idle") =>
                  /\ req'[r].files # <<>>
                  /\ \A n \in 1..Len(req'[r].files) : ExtAllowed(req'[r].files[n])
        /\ (pipeline /\ sent'.status # 0 /\ ~sent'.staged) =>
              /\ sent'.status = 400
              /\ \/ sent'.files = <<>>
                 \/ \E n \in 1..Len(sent'.files) : ~ExtAllowed(sent'.files[n])
              /\ dirs' = dirs
              /\ fsys' = fsys
              /\ req' = req
              /\ ~sent'.invoked
        /\ (pipeline /\ sent'.status = 400) => ~sent'.staged
      ]_vars

\* a batch whose second upload has a rejected suffix was answered 400 while
\* another request, with an upper-case suffix, is staged
C2_Witness ==
    /\ sent.status = 400
    /\ Len(sent.files) = 2
    /\ ExtAllowed(sent.files[1])
    /\ ~ExtAllowed(sent.files[2])
    /\ \E r \in Reqs : /\ req[r].pc = "read"
                       /\ Suffix(req[r].files[1]) = <<".", "P", "N", "G">>

\* C3: every directory and file of a staging tree belongs to a request that is
\* still between creating its TemporaryDirectory and its answer; right after a
\* request that had staged is answered (200, 500 after a pipeline fault, or an
\* exception while reading an upload) nothing of its tree exists.
C3_StagingReleased ==
    /\ \A p \in dirs \cup DOMAIN fsys :
          \E r \in Reqs : req[r].pc # "idle" /\ req[r].tmp = p[1]
    /\ sent.staged => \A p \in dirs \cup DOMAIN fsys : p[1] # sent.tmp

\* a request that had written uploads and page artifacts ended with a pipeline
\* fault, and no staging directory is left
C3_Witness ==
    /\ sent.staged
    /\ sent.status = 500
    /\ sent.written > 0
    /\ Len(sent.produced) > 0
    /\ dirs = {}
    /\ fsys = <<>>

\* C4: at most one request is inside _process_with_pipeline at any moment.
C4_PipelineSerialized ==
    Cardinality({ r \in Reqs : req[r].pc \in PipelinePcs }) <= 1

\* one request is saving pages while another one is part-way through receiving
\* its uploads
C4_Witness ==
    \E r1, r2 \in Reqs :
        /\ r1 # r2
        /\ req[r1].pc = "save"
        /\ req[r1].j > 1
        /\ req[r2].pc = "read"
        /\ req[r2].written > 0

\* C5: a successful batch response whose pages all got their structured-data
\* document has page_count equal to the number of pages the pipeline produced
\* (the sum of the k_i) and to the number of entries of pages.
C5_BatchPageAccounting ==
    (sent.kind = "batch" /\ sent.status = 200 /\ AllJsonSaved(sent))
    => /\ sent.page_count = Len(sent.produced)
       /\ sent.page_count = Cardinality(DOMAIN sent.pages)

\* C6: a request during whose pipeline invocation an exception was raised is
\* answered 500 with the exception's message as detail and without any page.
C6_FaultAllOrNothing ==
    sent.fault # "" =>
        /\ sent.status = 500
        /\ sent.body = "detail"
        /\ sent.detail = sent.fault
        /\ sent.pages = <<>>
        /\ sent.page_count = 0

\* a batch whose pipeline raised after pages had already been saved
C6_Witness ==
    /\ sent.fault = "save failed"
    /\ sent.kind = "batch"
    /\ Len(sent.files) = 2
    /\ Len(sent.produced) > 0

\* C10: in a successful response every produced page (no artifact-name clash in
\* the request) has an entry that reports the documents the pipeline wrote for
\* it and null for the one it left out.
C10_MissingArtifactTolerated ==
    (sent.status = 200 /\ NoArtifactClash(sent))
    => \A n \in 1..Len(sent.produced) :
          LET pg == sent.produced[n]
          IN \E pn \in DOMAIN sent.pages :
                sent.pages[pn] =
                    [json     |-> IF pg.wj THEN Some(PageContent(pg)) ELSE Null,
                     markdown |-> IF pg.wm THEN Some(PageContent(pg)) ELSE Null]

\* the calls one run has to issue for the discovered files
ExpectedCalls ==
    IF useBatch /\ Len(cfiles) > 1
    THEN << [url |-> "batch", files |-> cfiles] >>
    ELSE [n \in 1..Len(cfiles) |-> [url |-> "single", files |-> <<cfiles[n]>>]]

\* the run is over: process_files returned or ended with an exception
RunEnded == cpc \in {"done", "raised"}

\* C7: the calls issued are one batch call with all n files when batch mode is
\* on and n > 1, otherwise n single-file calls in sorted file order: never more
\* than one request in flight, the calls so far the first ones of that sequence,
\* and all of them once the run over n >= 1 files is over.
C7_SubmissionMode ==
    /\ inflight \in {0, 1}
    /\ Len(calls) <= Len(ExpectedCalls)
    /\ \A c \in 1..Len(calls) : calls[c] = ExpectedCalls[c]
    /\ \A m, n \in 1..Len(cfiles) : m < n => StrLess(cfiles[m], cfiles[n])
    /\ (RunEnded /\ Len(cfiles) >= 1) => calls = ExpectedCalls

\* C8: a call answered with a status other than 200 leads to no save_results
\* call, no call is sent twice, and once a sequential run is over every file
\* after one whose call was answered with a status other than 200 has been
\* submitted, its pages saved when its own call was answered 200.
C8_FailedCallSkipped ==
    /\ \A c \in 1..Len(resps) :
          resps[c].status # 200 => \A s \in saves : s.call # c
    /\ \A c1, c2 \in 1..Len(calls) : c1 # c2 => calls[c1] # calls[c2]
    /\ ( /\ RunEnded
         /\ Len(calls) > 0
         /\ calls[1].url = "single" )
       => \A c \in 1..Len(resps) :
             resps[c].status # 200 =>
                 \A n \in (c + 1)..Len(cfiles) :
                     /\ n <= Len(calls)
                     /\ calls[n].files = <<cfiles[n]>>
                     /\ (n <= Len(resps) /\ resps[n].status = 200) =>
                            \E s \in saves : /\ s.call = n
                                             /\ s.base = Stem(cfiles[n])

\* C9: every save_results call that returns writes <page_name>.md exactly for the pages
\* whose markdown is not null and <page_name>.json exactly for the pages whose
\* structured data is not null.
C9_ArtifactWrittenIffPresent ==
    \A s \in saves : \A pn \in DOMAIN s.pages :
        /\ (<<s.base, pn \o <<".", "m", "d">>>> \in s.written)
              <=> (s.pages[pn].markdown # Null)
        /\ (<<s.base, pn \o <<".", "j", "s", "o", "n">>>> \in s.written)
              <=> (s.pages[pn].json # Null)
====
